---------------------------- MODULE Spec2Model ----------------------------
(***************************************************************************)
(* Model of the conversation-memory bot of src/main.py: the SQLite memory  *)
(* layer (class Memory), the retrying model call (llm_reply), the reply    *)
(* decision of on_text, the context builder, the summarization check and   *)
(* the aiogram handlers, each handler cut at its awaits; and of the        *)
(* in-memory variant of src/app.py with its rolling history per chat.      *)
(*                                                                         *)
(* Durations are in tenths of a second (0.8 s is 8).  Python's None is the *)
(* string None; Python strings are TLA+ strings.                           *)
(***************************************************************************)
EXTENDS Integers, Sequences, FiniteSets, TLC

VARIABLES
    messages,     \* table messages, rows in rowid order
    msg_seq,      \* AUTOINCREMENT counter of messages (sqlite_sequence)
    summaries,    \* table summaries, rows in rowid order
    sum_seq,      \* AUTOINCREMENT counter of summaries
    now,          \* int(time.time())
    tasks,        \* the running handler coroutines: position and locals
    sent,         \* msg.answer(...) texts handed to Telegram, per chat
    delivered,    \* number of updates fed to the dispatcher so far
    gw,           \* one llm_reply invocation: loop position and effects
    pol,          \* one on_text reply decision: the update and the result
    recent,       \* result of the last Memory.get_recent_text call
    last_write,   \* per chat, the last committed write: observation only
    faults,       \* number of store operations that have raised so far
    histories,    \* app.py: the rolling history of each chat, oldest first
    app_out       \* app.py: the last event handled and the answer it got

vars == <<messages, msg_seq, summaries, sum_seq, now, tasks, sent, delivered,
          gw, pol, recent, last_write, faults, histories, app_out>>

-----------------------------------------------------------------------------
(* Python values *)

None == "<None>"

\* Python truthiness of an Optional[str]
Truthy(s) == s # None /\ s # ""

Min(a, b) == IF a <= b THEN a ELSE b

Max(a, b) == IF a >= b THEN a ELSE b

RECURSIVE Pow2(_)
Pow2(n) == IF n = 0 THEN 1 ELSE 2 * Pow2(n - 1)

\* sub in text
Contains(text, sub) ==
    \E i \in 1..(Len(text) - Len(sub) + 1) : SubSeq(text, i, i + Len(sub) - 1) = sub

Whitespace == {" ", "\n", "\t"}

\* str.strip()
RECURSIVE Strip(_)
Strip(s) ==
    IF Len(s) = 0 THEN s
    ELSE IF SubSeq(s, 1, 1) \in Whitespace THEN Strip(SubSeq(s, 2, Len(s)))
    ELSE IF SubSeq(s, Len(s), Len(s)) \in Whitespace THEN Strip(SubSeq(s, 1, Len(s) - 1))
    ELSE s

Front(s) == SubSeq(s, 1, Len(s) - 1)

Last(s) == s[Len(s)]

-----------------------------------------------------------------------------
(* llm_reply: the retry loop around client.chat.completions.create *)

MAX_ATTEMPTS == 6

BACKOFF_START == 8

BACKOFF_CAP == 80

OTHER_SLEEP == 12

FALLBACK == "(no response)"

\* One call of the model ends in one of these ways.  "rate" is RateLimitError
\* or APIError (the first except clause), "other" any other Exception.
CallOk(text) == [kind |-> "ok", text |-> text]

CallRate(err) == [kind |-> "rate", text |-> err]

CallOther(err) == [kind |-> "other", text |-> err]

\* state of the loop before the first iteration
GwStart ==
    [attempt |-> 0, backoff |-> BACKOFF_START, status |-> "running",
     value |-> None, calls |-> <<>>, slept |-> <<>>]

IsLastAttempt_OffByOne(attempt) == attempt = MAX_ATTEMPTS

\* if attempt == 5: raise
IsLastAttempt(attempt) == attempt = MAX_ATTEMPTS - 1

NextBackoff_NoCap(backoff) == backoff * 2

\* backoff = min(backoff * 2, 8)
NextBackoff(backoff) == Min(backoff * 2, BACKOFF_CAP)

\* random.random() * backoff lies in [0, backoff): the values the model draws
Jitters(backoff) == {0, backoff \div 2, backoff - 1}

\* for attempt in range(6): the next iteration, or the fall-through return
LoopNext(g) ==
    IF g.attempt + 1 < MAX_ATTEMPTS
    THEN [g EXCEPT !.attempt = g.attempt + 1]
    ELSE [g EXCEPT !.attempt = g.attempt + 1, !.status = "returned", !.value = FALLBACK]

\* One iteration of the loop: the call ends as `call`; jitter is the value of
\* random.random() * backoff if it is drawn.
LlmStep(g, call, jitter) ==
    LET g1 == [g EXCEPT !.calls = Append(g.calls, call)] IN
    IF call.kind = "ok"
    THEN [g1 EXCEPT !.status = "returned", !.value = Strip(call.text)]
    ELSE IF IsLastAttempt(g.attempt)
    THEN [g1 EXCEPT !.status = "raised", !.value = call.text]
    ELSE IF call.kind = "rate"
    THEN LoopNext([g1 EXCEPT
             !.slept = Append(g.slept, [kind |-> "rate", backoff |-> g.backoff,
                                        dur |-> g.backoff + jitter]),
             !.backoff = NextBackoff(g.backoff)])
    ELSE LoopNext([g1 EXCEPT
             !.slept = Append(g.slept, [kind |-> "other", backoff |-> g.backoff,
                                        dur |-> OTHER_SLEEP])])

\* The whole invocation on a script of call endings (jitter 0).
RECURSIVE LlmRun(_, _)
LlmRun(g, script) ==
    IF g.status # "running" \/ script = <<>> THEN g
    ELSE LlmRun(LlmStep(g, script[1], 0), SubSeq(script, 2, Len(script)))

-----------------------------------------------------------------------------
(* Memory: the SQLite tables and the queries of class Memory *)

ROW_LIMIT == 300

Chats == {"c1", "c2"}

\* INSERT INTO messages(chat_id,user_id,username,role,content,ts); the rowid
\* is the AUTOINCREMENT value id
InsertMessage(msgs, id, chat_id, user_id, username, role, content, ts) ==
    Append(msgs, [id |-> id, chat_id |-> chat_id, user_id |-> user_id,
                  username |-> username, role |-> role, content |-> content,
                  ts |-> ts])

\* WHERE chat_id=?
OfChat(rows, chat_id) == SelectSeq(rows, LAMBDA r : r.chat_id = chat_id)

\* Order of the entries of one chat in the indexes idx_messages_chat_ts and
\* idx_summaries_chat_ts: an index entry is (chat_id, ts, rowid).
KeyBefore(a, b) == a.ts < b.ts \/ (a.ts = b.ts /\ a.id < b.id)

\* two runs of index entries merged into one
RECURSIVE IndexMerge(_, _)
IndexMerge(a, b) ==
    IF b = <<>> THEN a
    ELSE IF a = <<>> THEN b
    ELSE IF KeyBefore(Last(a), b[1]) THEN a \o b
    ELSE IF KeyBefore(Last(a), Last(b)) THEN Append(IndexMerge(a, Front(b)), Last(b))
    ELSE Append(IndexMerge(Front(a), b), Last(a))

\* the index entries of rows[lo..hi], ascending
RECURSIVE IndexRange(_, _, _)
IndexRange(rows, lo, hi) ==
    IF lo > hi THEN <<>>
    ELSE IF lo = hi THEN <<rows[lo]>>
    ELSE IndexMerge(IndexRange(rows, lo, (lo + hi) \div 2),
                    IndexRange(rows, (lo + hi) \div 2 + 1, hi))

\* the index entries of the given rows, ascending
IndexAsc(rows) == IndexRange(rows, 1, Len(rows))

Reverse(s) == [i \in 1..Len(s) |-> s[Len(s) + 1 - i]]

Take(s, n) == SubSeq(s, 1, Min(n, Len(s)))

FetchRecent_OldestWindow(msgs, chat_id) ==
    Reverse(Take(IndexAsc(OfChat(msgs, chat_id)), ROW_LIMIT))

\* SELECT role, username, content FROM messages WHERE chat_id=?
\* ORDER BY ts DESC LIMIT 300: SQLite answers it by walking the index
\* backwards, so rows of equal ts come out by descending rowid.
FetchRecent(msgs, chat_id) == Take(Reverse(IndexAsc(OfChat(msgs, chat_id))), ROW_LIMIT)

ChronologicalRows_NotReversed(rows) == rows

\* rows = rows[::-1]
ChronologicalRows(rows) == Reverse(rows)

\* role.upper(), for the roles the program writes
UpperRole(role) ==
    CASE role = "user" -> "USER"
      [] role = "assistant" -> "ASSISTANT"

\* name = username or role; line = f"{role.upper()}({name}): {content}\n"
RenderLine(r) ==
    LET name == IF Truthy(r.username) THEN r.username ELSE r.role
    IN  UpperRole(r.role) \o "(" \o name \o "): " \o r.content \o "\n"

BudgetReached_Strict(total, limit_chars) == total > limit_chars

\* if total >= limit_chars: break
BudgetReached(total, limit_chars) == total >= limit_chars

\* The loop over rows, iterations lo..hi, from loop state st: n lines are in
\* out, total is their length, done says the loop has left through break.
\* (The range is halved so that the evaluation nests to depth log(hi - lo).)
RECURSIVE Accumulate(_, _, _, _, _)
Accumulate(rows, st, lo, hi, limit_chars) ==
    IF lo > hi \/ st.done THEN st
    ELSE IF lo = hi
    THEN LET total1 == st.total + Len(RenderLine(rows[lo]))
         IN  [n |-> lo, total |-> total1, done |-> BudgetReached(total1, limit_chars)]
    ELSE LET mid == (lo + hi) \div 2
         IN  Accumulate(rows, Accumulate(rows, st, lo, mid, limit_chars),
                        mid + 1, hi, limit_chars)

\* the rows Memory.get_recent_text renders
RecentRows(msgs, chat_id, limit_chars) ==
    LET rows == ChronologicalRows(FetchRecent(msgs, chat_id))
        end == Accumulate(rows, [n |-> 0, total |-> 0, done |-> FALSE],
                          1, Len(rows), limit_chars)
    IN  SubSeq(rows, 1, end.n)

\* "".join(out), out the lines of rows[lo..hi]
RECURSIVE JoinLines(_, _, _)
JoinLines(rows, lo, hi) ==
    IF lo > hi THEN ""
    ELSE IF lo = hi THEN RenderLine(rows[lo])
    ELSE LET mid == (lo + hi) \div 2
         IN  JoinLines(rows, lo, mid) \o JoinLines(rows, mid + 1, hi)

\* Memory.get_recent_text
get_recent_text(msgs, chat_id, limit_chars) ==
    LET rows == RecentRows(msgs, chat_id, limit_chars)
    IN  JoinLines(rows, 1, Len(rows))

\* Memory.count_messages
count_messages(msgs, chat_id) == Len(OfChat(msgs, chat_id))

-----------------------------------------------------------------------------
(* on_text: the reply decision *)

SelfUser == [id |-> "bot_id", username |-> "bot"]

\* msg.reply_to_message: absent, or a message whose from_user may be absent
NoReplyTo == [present |-> FALSE, from_id |-> None]

ReplyTo(from_id) == [present |-> TRUE, from_id |-> from_id]

\* for e in msg.entities: if e.type == MessageEntityType.MENTION: ... break
RECURSIVE HasMentionEntity(_)
HasMentionEntity(entities) ==
    IF entities = <<>> THEN FALSE
    ELSE IF entities[1] = "mention" THEN TRUE
    ELSE HasMentionEntity(Tail(entities))

IsReplyToMe_AnyAuthor(msg) == msg.reply_to.present

\* msg.reply_to_message and msg.reply_to_message.from_user and self_user
\* and msg.reply_to_message.from_user.id == self_user.id
IsReplyToMe(msg) ==
    /\ msg.reply_to.present
    /\ msg.reply_to.from_id # None
    /\ msg.reply_to.from_id = SelfUser.id

\* should_reply = is_private or mentioned or is_reply_to_me
should_reply(msg) ==
    LET text == Strip(msg.text)
        is_private == msg.chat_type = "private"
        mentioned == HasMentionEntity(msg.entities)
                       \/ Contains(text, "@" \o SelfUser.username)
    IN  is_private \/ mentioned \/ IsReplyToMe(msg)

-----------------------------------------------------------------------------
(* Specification of one llm_reply invocation, one action per loop iteration *)

ReplyTexts == {"ok", " ok "}

ErrTexts == {"e1", "e2"}

CallSucceeds ==
    /\ gw.status = "running"
    /\ \E t \in ReplyTexts : gw' = LlmStep(gw, CallOk(t), 0)
    /\ UNCHANGED <<messages, msg_seq, summaries, sum_seq, now, tasks, sent, delivered, pol, recent, last_write, faults, histories, app_out>>

CallRateLimited ==
    /\ gw.status = "running"
    /\ \E e \in ErrTexts, j \in Jitters(gw.backoff) : gw' = LlmStep(gw, CallRate(e), j)
    /\ UNCHANGED <<messages, msg_seq, summaries, sum_seq, now, tasks, sent, delivered, pol, recent, last_write, faults, histories, app_out>>

CallFailsOtherwise ==
    /\ gw.status = "running"
    /\ \E e \in ErrTexts : gw' = LlmStep(gw, CallOther(e), 0)
    /\ UNCHANGED <<messages, msg_seq, summaries, sum_seq, now, tasks, sent, delivered, pol, recent, last_write, faults, histories, app_out>>

\* values of the variables a specification does not use
StoreEmpty ==
    /\ messages = <<>>
    /\ msg_seq = 0
    /\ summaries = <<>>
    /\ sum_seq = 0
    /\ now = 0

NoTasks ==
    /\ tasks = <<>>
    /\ sent = <<>>
    /\ delivered = 0
    /\ last_write = <<>>
    /\ faults = 0
    /\ histories = <<>>
    /\ app_out = <<>>

NoDecision == [decided |-> FALSE]

NoQuery == [called |-> FALSE]

InitGateway ==
    /\ gw = GwStart
    /\ StoreEmpty
    /\ NoTasks
    /\ pol = NoDecision
    /\ recent = NoQuery

NextGateway == CallSucceeds \/ CallRateLimited \/ CallFailsOtherwise

SpecGateway == InitGateway /\ [][NextGateway]_vars


-----------------------------------------------------------------------------
(* Claims about llm_reply, checked under SpecGateway *)

FailedCalls(calls) == {i \in 1..Len(calls) : calls[i].kind # "ok"}

\* C3: llm_reply calls the model at most 6 times.  When the first K < 6 calls
\* fail (rate-limited/API errors and other errors in any mix) and call K+1
\* succeeds, it returns the (stripped) text of that call after exactly K
\* sleeps.  When all 6 calls fail it raises the error of the 6th call, having
\* slept 5 times (not after the 6th), and makes no 7th call.  It never
\* returns the fall-through value "(no response)".
C3_AtMostSixCalls ==
    /\ Len(gw.calls) <= 6
    /\ gw.status = "running" =>
          /\ Len(gw.calls) < 6
          /\ FailedCalls(gw.calls) = 1..Len(gw.calls)
          /\ Len(gw.slept) = Len(gw.calls)
    /\ gw.status = "returned" =>
          /\ gw.calls # <<>>
          /\ Last(gw.calls).kind = "ok"
          /\ FailedCalls(gw.calls) = 1..(Len(gw.calls) - 1)
          /\ gw.value = Strip(Last(gw.calls).text)
          /\ Len(gw.slept) = Len(gw.calls) - 1
          /\ gw.value # "(no response)"
    /\ gw.status = "raised" =>
          /\ Len(gw.calls) = 6
          /\ FailedCalls(gw.calls) = 1..6
          /\ gw.value = gw.calls[6].text
          /\ Len(gw.slept) = 5

\* all six calls failed, with both kinds of error among them and two
\* different errors, and the invocation has raised
C3_Witness ==
    /\ gw.status = "raised"
    /\ \E i, k \in 1..Len(gw.calls) : gw.calls[i].kind = "rate" /\ gw.calls[k].kind = "other"
    /\ gw.calls[5].text # gw.calls[6].text

RateSleeps(slept, i) == Cardinality({k \in 1..i : slept[k].kind = "rate"})

\* min(0.8 * 2^(j-1), 8) seconds, in tenths
ExpectedBase(j) == Min(8 * Pow2(j - 1), 80)

\* C4: within one invocation the backoff base of the j-th rate-limited or
\* API-error failure is min(0.8 * 2^(j-1), 8) s (0.8, 1.6, 3.2, 6.4, 8): it
\* never decreases, never exceeds 8 s, and the sleep lies in
\* [backoff, 2*backoff).  Any other failure sleeps 1.2 s and leaves the
\* backoff base as it was.
C4_BackoffSequence ==
    /\ \A i \in 1..Len(gw.slept) :
          LET s == gw.slept[i]
              after == IF i < Len(gw.slept) THEN gw.slept[i + 1].backoff ELSE gw.backoff
          IN  /\ s.backoff <= 80
              /\ s.backoff <= after
              /\ s.kind = "rate" =>
                    /\ s.backoff = ExpectedBase(RateSleeps(gw.slept, i))
                    /\ s.backoff <= s.dur
                    /\ s.dur < 2 * s.backoff
              /\ s.kind = "other" =>
                    /\ s.dur = 12
                    /\ after = s.backoff
    /\ gw.backoff = ExpectedBase(RateSleeps(gw.slept, Len(gw.slept)) + 1)

\* five rate-limited failures in a row: the fifth sleeps on the capped base
C4_Witness ==
    /\ Len(gw.slept) = 5
    /\ gw.slept[5].kind = "rate"
    /\ gw.slept[5].backoff = 80
    /\ gw.slept[5].dur > 80
    /\ gw.slept[4].backoff = 64

-----------------------------------------------------------------------------
(* Specification of the reply decision: on_text decides on one update *)

ChatTypes == {"private", "group", "supergroup"}

Texts == {"Hello", "hey @bot can you help", " @bot ", "bot @ bo", "mail a@b"}

EntityLists == {<<>>, <<"mention">>, <<"url">>, <<"text_mention", "mention">>, <<"url", "bold">>}

ReplyTargets == {NoReplyTo, ReplyTo(None), ReplyTo("bot_id"), ReplyTo("u2")}

Updates ==
    [chat_type : ChatTypes, text : Texts, entities : EntityLists, reply_to : ReplyTargets]

Decide ==
    /\ ~pol.decided
    /\ pol' = [pol EXCEPT !.decided = TRUE, !.result = should_reply(pol.msg)]
    /\ UNCHANGED <<messages, msg_seq, summaries, sum_seq, now, tasks, sent, delivered, gw, recent, last_write, faults, histories, app_out>>

InitPolicy ==
    /\ pol \in [decided : {FALSE}, msg : Updates, result : {FALSE}]
    /\ StoreEmpty
    /\ NoTasks
    /\ gw = GwStart
    /\ recent = NoQuery

NextPolicy == Decide

SpecPolicy == InitPolicy /\ [][NextPolicy]_vars

\* C5: the reply decision of an inbound text is true exactly when the chat is
\* private, or the message carries an entity of kind mention, or its text
\* contains "@" + the bot's username, or it replies to a message whose author
\* id is the bot's id.  So a group message with no mention that replies to
\* nobody, or to another user, gets no reply.
C5_ReplyDecision ==
    pol.decided =>
        LET m == pol.msg IN
        /\ pol.result =
              \/ m.chat_type = "private"
              \/ \E i \in DOMAIN m.entities : m.entities[i] = "mention"
              \/ Contains(m.text, "@bot")
              \/ (m.reply_to.present /\ m.reply_to.from_id = "bot_id")
        /\ ( /\ m.chat_type # "private"
             /\ m.entities \in {<<>>, <<"url">>, <<"url", "bold">>}
             /\ m.text \in {"Hello", "bot @ bo", "mail a@b"}
             /\ m.reply_to \in {NoReplyTo, ReplyTo("u2"), ReplyTo(None)} ) => ~pol.result

\* a group message with the substring "@bot" and no mention entity, replying
\* to another user, was decided
C5_Witness ==
    /\ pol.decided
    /\ pol.msg.chat_type = "group"
    /\ pol.msg.text = "hey @bot can you help"
    /\ pol.msg.entities = <<>>
    /\ pol.msg.reply_to = ReplyTo("u2")
    /\ pol.result

-----------------------------------------------------------------------------
(* Specification of the message table: appends, the clock, and reads *)

MaxAppends == 3

MaxWindowAppends == 2

SmallPreload == 4

MaxTime == 1

LongText == "12345678901234567"

\* the add_message calls of the handlers: (chat_id, user_id, username, role, content)
Writes ==
    { <<"c1", "u1", None, "user", LongText>>,
      <<"c1", "u2", "al", "user", "hi">>,
      <<"c1", None, "bot", "assistant", "ok">>,
      <<"c2", "u1", None, "user", LongText>> }

Budgets == {1, 30, 50, 60, 6000}

\* a chat that already holds n messages
Preload(n) ==
    [i \in 1..n |-> [id |-> i, chat_id |-> "c1", user_id |-> "u1", username |-> None,
                     role |-> "user", content |-> LongText, ts |-> 0]]

Preloads == {0, SmallPreload, ROW_LIMIT - 1}

\* the preload a table with AUTOINCREMENT value n started from
PreloadOf(n) ==
    IF n >= ROW_LIMIT - 1 THEN ROW_LIMIT - 1
    ELSE IF n >= SmallPreload THEN SmallPreload
    ELSE 0

\* Memory.add_message
StoreAdd ==
    /\ msg_seq - PreloadOf(msg_seq) <
          (IF msg_seq >= ROW_LIMIT - 1 THEN MaxWindowAppends ELSE MaxAppends)
    /\ \E w \in Writes :
          messages' = InsertMessage(messages, msg_seq + 1, w[1], w[2], w[3], w[4], w[5], now)
    /\ msg_seq' = msg_seq + 1
    /\ recent' = NoQuery
    /\ UNCHANGED <<summaries, sum_seq, now, tasks, sent, delivered, gw, pol, last_write, faults, histories, app_out>>

\* time.time() moves on
Tick ==
    /\ now < MaxTime
    /\ now' = now + 1
    /\ recent' = NoQuery
    /\ UNCHANGED <<messages, msg_seq, summaries, sum_seq, tasks, sent, delivered, gw, pol, last_write, faults, histories, app_out>>

\* Memory.get_recent_text
StoreRecent ==
    /\ ~recent.called
    /\ \E c \in Chats, b \in Budgets :
          LET rows == RecentRows(messages, c, b)
          IN  recent' = [called |-> TRUE, chat_id |-> c, limit_chars |-> b,
                         rows |-> rows, text |-> JoinLines(rows, 1, Len(rows))]
    /\ UNCHANGED <<messages, msg_seq, summaries, sum_seq, now, tasks, sent, delivered, gw, pol, last_write, faults, histories, app_out>>

InitStore ==
    /\ \E n \in Preloads : messages = Preload(n) /\ msg_seq = n
    /\ summaries = <<>>
    /\ sum_seq = 0
    /\ now = 0
    /\ NoTasks
    /\ gw = GwStart
    /\ pol = NoDecision
    /\ recent = NoQuery

NextStore == StoreAdd \/ Tick \/ StoreRecent

SpecStore == InitStore /\ [][NextStore]_vars

\* total rendered length of rows[lo..hi]
RECURSIVE CharsOf(_, _, _)
CharsOf(rows, lo, hi) ==
    IF lo > hi THEN 0
    ELSE IF lo = hi THEN Len(RenderLine(rows[lo]))
    ELSE CharsOf(rows, lo, (lo + hi) \div 2) + CharsOf(rows, (lo + hi) \div 2 + 1, hi)

Chars(rows) == CharsOf(rows, 1, Len(rows))

\* C6: whatever was appended (several rows may carry the same ts), the rows
\* get_recent_text returns are rows of the chat in increasing (ts, id) order,
\* which is the order in which they were appended, and the text is their
\* lines in that order.
C6_Chronological ==
    recent.called =>
        /\ \A i \in 1..Len(recent.rows) : recent.rows[i].chat_id = recent.chat_id
        /\ \A i \in 1..(Len(recent.rows) - 1) :
              LET a == recent.rows[i]
                  b == recent.rows[i + 1]
              IN  /\ a.ts < b.ts \/ (a.ts = b.ts /\ a.id < b.id)
                  /\ a.id < b.id
        /\ Len(recent.text) = Chars(recent.rows)
        /\ recent.rows # <<>> =>
              SubSeq(recent.text, 1, Len(RenderLine(recent.rows[1]))) = RenderLine(recent.rows[1])

\* a read returned rows of equal ts followed by a row of a later ts
C6_Witness ==
    /\ recent.called
    /\ Len(recent.rows) >= 3
    /\ recent.rows[1].ts = recent.rows[2].ts
    /\ recent.rows[2].ts < recent.rows[3].ts

\* C7: for a budget > 0, the text returned without its last line is shorter
\* than the budget: the result exceeds the budget by less than one line.
C7_BudgetOvershoot ==
    (recent.called /\ recent.limit_chars > 0) =>
        IF recent.rows = <<>> THEN Len(recent.text) = 0
        ELSE Len(recent.text) - Len(RenderLine(Last(recent.rows))) < recent.limit_chars

\* a read whose result is longer than its budget
C7_Witness ==
    /\ recent.called
    /\ Len(recent.rows) >= 2
    /\ Len(recent.text) > recent.limit_chars

\* the chat's most recent 300 messages, oldest first
Window(chat_id) ==
    LET all == OfChat(messages, chat_id)
    IN  SubSeq(all, Max(1, Len(all) - 300 + 1), Len(all))

\* C8: get_recent_text returns the shortest prefix (from the oldest row) of
\* the chat's most recent 300 messages in chronological order whose rendered
\* length reaches the budget, or the whole window when no prefix reaches it;
\* the messages left out are the newest.
C8_OldestPrefix ==
    recent.called =>
        LET W == Window(recent.chat_id)
            k == Len(recent.rows)
        IN  /\ k <= Len(W)
            /\ recent.rows = SubSeq(W, 1, k)
            /\ k < Len(W) => Chars(recent.rows) >= recent.limit_chars
            /\ k >= 1 => Chars(Front(recent.rows)) < recent.limit_chars

\* five stored lines of 30 characters, budget 50: the first two are returned
C8_Witness ==
    /\ recent.called
    /\ recent.limit_chars = 50
    /\ Len(OfChat(messages, recent.chat_id)) = 5
    /\ \A i \in 1..5 : Len(RenderLine(OfChat(messages, recent.chat_id)[i])) = 30
    /\ recent.rows = SubSeq(OfChat(messages, recent.chat_id), 1, 2)
    /\ Len(recent.text) = 60

-----------------------------------------------------------------------------
(* Memory: the summaries table, and the context built from both tables *)

\* configured through the environment (default 80); the model runs the
\* configuration SUMMARY_EVERY_N_MESSAGES=2
SUMMARY_EVERY_N_MESSAGES == 2

RECENT_CHARS == 6000

SUMMARY_MIN_CHARS == 16000

MAX_REPLY_CHARS == 4096

PREVIEW_CHARS == 2000

\* INSERT INTO summaries(chat_id, content, ts)
InsertSummary(sums, id, chat_id, content, ts) ==
    Append(sums, [id |-> id, chat_id |-> chat_id, content |-> content, ts |-> ts])

get_latest_summary_OldestOfTies(sums, chat_id) ==
    LET rows == OfChat(sums, chat_id)
        top == {i \in DOMAIN rows : \A j \in DOMAIN rows : rows[j].ts <= rows[i].ts}
    IN  IF rows = <<>> THEN ""
        ELSE rows[CHOOSE i \in top : \A j \in top : i <= j].content

\* Memory.get_latest_summary: SELECT content FROM summaries WHERE chat_id=?
\* ORDER BY ts DESC LIMIT 1, answered by walking idx_summaries_chat_ts backwards
get_latest_summary(sums, chat_id) ==
    LET rows == Take(Reverse(IndexAsc(OfChat(sums, chat_id))), 1)
    IN  IF rows = <<>> THEN "" ELSE rows[1].content

\* the body of build_context after its two reads
CombineContext(summary, recent_text) ==
    IF summary # "" /\ recent_text # ""
    THEN summary \o "\n--- Recent:\n" \o recent_text
    ELSE IF summary # "" THEN summary
    ELSE IF recent_text # "" THEN recent_text
    ELSE ""

\* build_context, both reads made at the same moment
build_context(msgs, sums, chat_id) ==
    CombineContext(get_latest_summary(sums, chat_id),
                   get_recent_text(msgs, chat_id, RECENT_CHARS))

\* if count > 0 and count % SUMMARY_EVERY_N_MESSAGES == 0
SummaryDue(count) == count > 0 /\ count % SUMMARY_EVERY_N_MESSAGES = 0

DeleteMessages_Kept(msgs, chat_id) == msgs

DeleteMessages_AllChats(msgs, chat_id) == <<>>

\* DELETE FROM messages WHERE chat_id=?
DeleteMessages(msgs, chat_id) == SelectSeq(msgs, LAMBDA r : r.chat_id # chat_id)

DeleteSummaries_Kept(sums, chat_id) == sums

\* DELETE FROM summaries WHERE chat_id=?
DeleteSummaries(sums, chat_id) == SelectSeq(sums, LAMBDA r : r.chat_id # chat_id)

\* s[:n]
Truncate(s, n) == SubSeq(s, 1, Min(n, Len(s)))

-----------------------------------------------------------------------------
(* The handlers.  A handler runs in a task; an action is the code between  *)
(* two awaits that other tasks can observe.  The clock is read when the    *)
(* argument tuple of an INSERT is built, before the INSERT runs.           *)

Tasks == {1, 2}

MaxUpdates == 2

\* the texts the handlers send, each cut to its first words
SummaryPrompt == "Summarize the group conversation into durable notes"

Greeting == "Hi! I'm alive in this chat."

\* (the backquotes of the Markdown texts are left out)
UsageText == "Usage: /ai your prompt or reply to a message with /ai."

WipedText == "Memory wiped for this chat."

NoMemoryText == "(no memory yet)"

\* an update as the dispatcher hands it to a handler
Update(handler, chat_id, chat_type, from_id, username, text, args) ==
    [handler |-> handler, chat_id |-> chat_id, chat_type |-> chat_type,
     from_id |-> from_id, username |-> username, text |-> text,
     entities |-> <<>>, reply_to |-> NoReplyTo, args |-> args]

\* the updates of the model: c1 is a private chat, c2 a group
MainUpdates ==
    { Update("on_text", "c1", "private", "u1", None, "Hello", None),
      Update("on_text", "c2", "group", "u2", "al", "Hello", None),
      Update("on_ai", "c2", "group", "u2", "al", "/ai q", "q"),
      Update("on_ai", "c2", "group", "u2", "al", "/ai", None),
      Update("on_start", "c1", "private", "u1", None, "/start", None),
      Update("on_memory", "c1", "private", "u1", None, "/memory", None),
      Update("on_wipe", "c1", "private", "u1", None, "/wipe", None) }

\* what one llm_reply invocation meets: the endings of its calls
ReplyScripts ==
    { <<CallOk("ok")>>,
      <<CallRate("e1"), CallOther("e2"), CallOk("ok")>>,
      <<CallRate("e1"), CallRate("e1"), CallRate("e1"),
        CallOther("e2"), CallOther("e2"), CallOther("e2")>> }

SummaryScripts ==
    { <<CallOk("notes")>>,
      <<CallOther("e1"), CallOther("e1"), CallOther("e1"),
        CallRate("e2"), CallRate("e2"), CallRate("e2")>> }

\* llm_reply
llm_reply(script) == LlmRun(GwStart, script)

\* on_ai: prompt = (command.args or "").strip(); the update replies to nothing
AiPrompt(u) == IF u.args = None THEN "" ELSE Strip(u.args)

\* the content of the user row a handler stores
UserContent(u) ==
    CASE u.handler = "on_text" -> Strip(u.text)
      [] u.handler = "on_ai" -> "/ai " \o AiPrompt(u)
      [] u.handler = "on_start" -> u.text

\* a task slot with no handler in it; checked, owed and attempts observe the
\* handler: maybe_summarize was entered, the appends of this handler that
\* left the count of the chat positive and divisible by N, the
\* summarization attempts (llm_reply invocations of maybe_summarize) it made;
\* log lists the effects of the handler in the order they happened
IdleTask ==
    [kind |-> "idle", pc |-> "idle", msg |-> <<>>, ts |-> 0, txn |-> {},
     summary |-> "", context |-> "", reply |-> "", count |-> 0,
     long_context |-> "", summary_text |-> "",
     checked |-> FALSE, owed |-> 0, attempts |-> 0, log |-> <<>>]

Entry_PolicyFirst(u) ==
    CASE u.handler = "on_text" -> IF should_reply(u) THEN "add_user" ELSE "done"
      [] u.handler = "on_start" -> "add_user"
      [] u.handler = "on_ai" -> IF Strip(IF u.args = None THEN "" ELSE u.args) = ""
                                THEN "usage" ELSE "add_user"
      [] u.handler = "on_memory" -> "ctx_summary"
      [] u.handler = "on_wipe" -> "wipe_messages"

\* first position of each handler
Entry(u) ==
    CASE u.handler = "on_text" -> "add_user"
      [] u.handler = "on_start" -> "add_user"
      [] u.handler = "on_ai" -> IF AiPrompt(u) = "" THEN "usage" ELSE "add_user"
      [] u.handler = "on_memory" -> "ctx_summary"
      [] u.handler = "on_wipe" -> "wipe_messages"

\* a transaction of another connection holds the write lock of the database
WriteLocked(t) == \E o \in Tasks \ {t} : tasks[o].txn # {}

\* the handler has returned: its locals are gone (what is kept observes it)
Returned(r) ==
    [IdleTask EXCEPT !.kind = r.kind, !.pc = "done", !.log = r.log,
                     !.checked = r.checked, !.owed = r.owed, !.attempts = r.attempts]

\* the record r with the effects es added to its log
Logged(r, es) == [r EXCEPT !.log = @ \o es]

\* no handler runs in the task
Free(t) == tasks[t].pc \in {"idle", "done"}

Say(chat_id, text) == sent' = [sent EXCEPT ![chat_id] = Append(@, text)]

\* dp.feed_update: the dispatcher starts the handler of an update
Deliver(t) ==
    /\ delivered < MaxUpdates
    /\ Free(t)
    /\ \A o \in Tasks : o < t => ~Free(o)
    /\ \E u \in MainUpdates :
          tasks' = [tasks EXCEPT ![t] =
                      [IdleTask EXCEPT !.kind = u.handler, !.pc = Entry(u),
                                       !.msg = u,
                                       !.ts = IF Entry(u) = "add_user" THEN now ELSE 0]]
    /\ delivered' = delivered + 1
    /\ UNCHANGED <<messages, msg_seq, summaries, sum_seq, now, sent, gw, pol, recent, last_write, faults, histories, app_out>>

\* on_text, on_ai, on_start: await memory.add_message(..., "user", ...)
AddUser(t) ==
    LET r == tasks[t]
        u == r.msg
        after == InsertMessage(messages, msg_seq + 1, u.chat_id, u.from_id,
                               u.username, "user", UserContent(u), r.ts)
        r1 == [r EXCEPT !.ts = 0,
                        !.log = @ \o (IF r.kind = "on_text" THEN <<"user", "policy">>
                                      ELSE <<"user">>),
                        !.owed = @ + (IF SummaryDue(count_messages(after, u.chat_id))
                                      THEN 1 ELSE 0)]
    IN  /\ r.pc = "add_user"
        /\ ~WriteLocked(t)
        /\ messages' = after
        /\ msg_seq' = msg_seq + 1
        /\ last_write' = [last_write EXCEPT ![u.chat_id] = "append_message"]
        /\ tasks' = [tasks EXCEPT ![t] =
              CASE r.kind = "on_start" -> [r1 EXCEPT !.pc = "greet"]
                [] r.kind = "on_ai" -> [r1 EXCEPT !.pc = "ctx_summary"]
                [] r.kind = "on_text" ->
                     IF should_reply(u) THEN [r1 EXCEPT !.pc = "ctx_summary"]
                     ELSE Returned(r1)]
        /\ UNCHANGED <<summaries, sum_seq, now, sent, delivered, gw, pol, recent, faults, histories, app_out>>

\* on_start: await msg.answer(...)
Greet(t) ==
    /\ tasks[t].pc = "greet"
    /\ Say(tasks[t].msg.chat_id, Greeting)
    /\ tasks' = [tasks EXCEPT ![t] = Returned(@)]
    /\ UNCHANGED <<messages, msg_seq, summaries, sum_seq, now, delivered, gw, pol, recent, last_write, faults, histories, app_out>>

\* on_ai: if not prompt: await msg.answer(usage); return
Usage(t) ==
    /\ tasks[t].pc = "usage"
    /\ Say(tasks[t].msg.chat_id, UsageText)
    /\ tasks' = [tasks EXCEPT ![t] = Returned(@)]
    /\ UNCHANGED <<messages, msg_seq, summaries, sum_seq, now, delivered, gw, pol, recent, last_write, faults, histories, app_out>>

\* build_context: summary = await memory.get_latest_summary(chat_id)
CtxSummary(t) ==
    /\ tasks[t].pc = "ctx_summary"
    /\ tasks' = [tasks EXCEPT ![t] =
          [@ EXCEPT !.pc = "ctx_recent",
                    !.summary = get_latest_summary(summaries, tasks[t].msg.chat_id)]]
    /\ UNCHANGED <<messages, msg_seq, summaries, sum_seq, now, sent, delivered, gw, pol, recent, last_write, faults, histories, app_out>>

\* build_context: recent = await memory.get_recent_text(...), and its return
CtxRecent(t) ==
    LET r == tasks[t]
        text == get_recent_text(messages, r.msg.chat_id, RECENT_CHARS)
    IN  /\ r.pc = "ctx_recent"
        /\ tasks' = [tasks EXCEPT ![t] =
              [r EXCEPT !.pc = IF r.kind = "on_memory" THEN "preview" ELSE "llm",
                        !.summary = "",
                        !.context = CombineContext(r.summary, text)]]
        /\ UNCHANGED <<messages, msg_seq, summaries, sum_seq, now, sent, delivered, gw, pol, recent, last_write, faults, histories, app_out>>

\* on_memory: await msg.answer(f"Current memory preview:\n\n{preview}")
Preview(t) ==
    LET r == tasks[t]
        preview == IF r.context # "" THEN Truncate(r.context, PREVIEW_CHARS) ELSE NoMemoryText
    IN  /\ r.pc = "preview"
        /\ Say(r.msg.chat_id, "Current memory preview:\n\n" \o preview)
        /\ tasks' = [tasks EXCEPT ![t] = Returned(r)]
        /\ UNCHANGED <<messages, msg_seq, summaries, sum_seq, now, delivered, gw, pol, recent, last_write, faults, histories, app_out>>

AfterLlm_AnswersError(status) == "answer"

\* after llm_reply: the rest of the try when it returned, the except clause
\* when it raised
AfterLlm(status) == IF status = "returned" THEN "answer" ELSE "notice"

\* on_text, on_ai: reply = await llm_reply(...)
Llm(t) ==
    /\ tasks[t].pc = "llm"
    /\ \E script \in ReplyScripts :
          LET g == llm_reply(script) IN
          tasks' = [tasks EXCEPT ![t] =
              [@ EXCEPT !.pc = AfterLlm(g.status),
                        !.context = "",
                        !.reply = g.value,
                        !.log = @ \o (IF g.status = "returned" THEN <<"gateway">>
                                      ELSE <<"gateway", "failed">>)]]
    /\ UNCHANGED <<messages, msg_seq, summaries, sum_seq, now, sent, delivered, gw, pol, recent, last_write, faults, histories, app_out>>

\* await msg.answer(reply[:MAX_REPLY_CHARS]) (and on_ai's await bot.me())
Answer(t) ==
    /\ tasks[t].pc = "answer"
    /\ Say(tasks[t].msg.chat_id, Truncate(tasks[t].reply, MAX_REPLY_CHARS))
    /\ tasks' = [tasks EXCEPT ![t] =
          [@ EXCEPT !.pc = "add_assistant", !.ts = now, !.log = Append(@, "reply")]]
    /\ UNCHANGED <<messages, msg_seq, summaries, sum_seq, now, delivered, gw, pol, recent, last_write, faults, histories, app_out>>

\* await memory.add_message(chat_id, None, self_user.username, "assistant", reply)
AddAssistant(t) ==
    LET r == tasks[t]
        c == r.msg.chat_id
        after == InsertMessage(messages, msg_seq + 1, c, None, SelfUser.username,
                               "assistant", r.reply, r.ts)
    IN  /\ r.pc = "add_assistant"
        /\ ~WriteLocked(t)
        /\ messages' = after
        /\ msg_seq' = msg_seq + 1
        /\ last_write' = [last_write EXCEPT ![c] = "append_message"]
        /\ tasks' = [tasks EXCEPT ![t] =
              [r EXCEPT !.pc = "sum_count", !.reply = "", !.ts = 0,
                        !.log = Append(@, "assistant"),
                        !.owed = @ + (IF SummaryDue(count_messages(after, c)) THEN 1 ELSE 0)]]
        /\ UNCHANGED <<summaries, sum_seq, now, sent, delivered, gw, pol, recent, faults, histories, app_out>>

\* except Exception as e: await msg.answer("LLM error: " + e)
Notice(t) ==
    /\ tasks[t].pc = "notice"
    /\ Say(tasks[t].msg.chat_id, "LLM error: " \o tasks[t].reply)
    /\ tasks' = [tasks EXCEPT ![t] =
          [@ EXCEPT !.pc = "sum_count", !.reply = "", !.log = Append(@, "notice")]]
    /\ UNCHANGED <<messages, msg_seq, summaries, sum_seq, now, delivered, gw, pol, recent, last_write, faults, histories, app_out>>

\* maybe_summarize: count = await memory.count_messages(chat_id), and the test
SumCount(t) ==
    LET r == Logged(tasks[t], <<"check">>)
        count == count_messages(messages, r.msg.chat_id)
    IN  /\ r.pc = "sum_count"
        /\ tasks' = [tasks EXCEPT ![t] =
              IF SummaryDue(count)
              THEN [r EXCEPT !.pc = "sum_recent", !.count = count, !.checked = TRUE]
              ELSE Returned([r EXCEPT !.checked = TRUE])]
        /\ UNCHANGED <<messages, msg_seq, summaries, sum_seq, now, sent, delivered, gw, pol, recent, last_write, faults, histories, app_out>>

\* maybe_summarize: long_context = await memory.get_recent_text(...)
SumRecent(t) ==
    /\ tasks[t].pc = "sum_recent"
    /\ tasks' = [tasks EXCEPT ![t] =
          [@ EXCEPT !.pc = "sum_llm",
                    !.long_context =
                        get_recent_text(messages, tasks[t].msg.chat_id,
                                        Max(RECENT_CHARS * 3, SUMMARY_MIN_CHARS))]]
    /\ UNCHANGED <<messages, msg_seq, summaries, sum_seq, now, sent, delivered, gw, pol, recent, last_write, faults, histories, app_out>>

\* maybe_summarize: summary_text = await llm_reply(...); except Exception: pass
SumLlm(t) ==
    /\ tasks[t].pc = "sum_llm"
    /\ \E script \in SummaryScripts :
          LET g == llm_reply(script)
              r == [Logged(tasks[t], <<"summarize">>) EXCEPT
                        !.attempts = @ + 1, !.long_context = ""]
          IN  tasks' = [tasks EXCEPT ![t] =
                  IF g.status = "returned"
                  THEN [r EXCEPT !.pc = "sum_save", !.summary_text = g.value, !.ts = now]
                  ELSE Returned(Logged(r, <<"fail_sum_llm">>))]
    /\ UNCHANGED <<messages, msg_seq, summaries, sum_seq, now, sent, delivered, gw, pol, recent, last_write, faults, histories, app_out>>

\* maybe_summarize: await memory.save_summary(chat_id, summary_text)
SumSave(t) ==
    LET r == tasks[t] IN
    /\ r.pc = "sum_save"
    /\ ~WriteLocked(t)
    /\ summaries' = InsertSummary(summaries, sum_seq + 1, r.msg.chat_id, r.summary_text, r.ts)
    /\ sum_seq' = sum_seq + 1
    /\ last_write' = [last_write EXCEPT ![r.msg.chat_id] = "append_summary"]
    /\ tasks' = [tasks EXCEPT ![t] = Returned(Logged(r, <<"summary">>))]
    /\ UNCHANGED <<messages, msg_seq, now, sent, delivered, gw, pol, recent, faults, histories, app_out>>

\* on_wipe: await db.execute("DELETE FROM messages WHERE chat_id=?"), which
\* opens the transaction of the connection and takes the write lock
WipeMessages(t) ==
    /\ tasks[t].pc = "wipe_messages"
    /\ ~WriteLocked(t)
    /\ tasks' = [tasks EXCEPT ![t] = [@ EXCEPT !.pc = "wipe_summaries", !.txn = {"messages"}]]
    /\ UNCHANGED <<messages, msg_seq, summaries, sum_seq, now, sent, delivered, gw, pol, recent, last_write, faults, histories, app_out>>

\* on_wipe: await db.execute("DELETE FROM summaries WHERE chat_id=?")
WipeSummaries(t) ==
    /\ tasks[t].pc = "wipe_summaries"
    /\ tasks' = [tasks EXCEPT ![t] = [@ EXCEPT !.pc = "wipe_commit", !.txn = @ \cup {"summaries"}]]
    /\ UNCHANGED <<messages, msg_seq, summaries, sum_seq, now, sent, delivered, gw, pol, recent, last_write, faults, histories, app_out>>

\* on_wipe: await db.commit(): the deletes of the transaction become visible
WipeCommit(t) ==
    LET r == tasks[t]
        c == r.msg.chat_id
    IN  /\ r.pc = "wipe_commit"
        /\ messages' = IF "messages" \in r.txn THEN DeleteMessages(messages, c) ELSE messages
        /\ summaries' = IF "summaries" \in r.txn THEN DeleteSummaries(summaries, c) ELSE summaries
        /\ last_write' = [last_write EXCEPT ![c] = "wipe"]
        /\ tasks' = [tasks EXCEPT ![t] = [r EXCEPT !.pc = "wipe_answer", !.txn = {}]]
        /\ UNCHANGED <<msg_seq, sum_seq, now, sent, delivered, gw, pol, recent, faults, histories, app_out>>

\* on_wipe: await msg.answer("Memory wiped for this chat.")
WipeAnswer(t) ==
    /\ tasks[t].pc = "wipe_answer"
    /\ Say(tasks[t].msg.chat_id, WipedText)
    /\ tasks' = [tasks EXCEPT ![t] = Returned(@)]
    /\ UNCHANGED <<messages, msg_seq, summaries, sum_seq, now, delivered, gw, pol, recent, last_write, faults, histories, app_out>>

\* A store operation can raise (sqlite3.OperationalError: the database is
\* locked, the disk fails); a write that raises inserts nothing.
MaxFaults == 1

StorageErrorText == "database is locked"

\* the exception leaves the handler: nothing after the failing await runs
Raised(r, op) == Returned(Logged(r, <<op, "raise">>))

\* add_message of the user row raises: lines 195, 233, 259 are outside any try
AddUserFails(t) ==
    /\ tasks[t].pc = "add_user"
    /\ faults < MaxFaults
    /\ faults' = faults + 1
    /\ tasks' = [tasks EXCEPT ![t] = Raised(@, "fail_add_user")]
    /\ UNCHANGED <<messages, msg_seq, summaries, sum_seq, now, sent, delivered, gw, pol, recent, last_write, histories, app_out>>

\* a read of build_context raises: build_context has no try, and its callers
\* call it before their try (lines 206, 235, 285)
CtxReadFails(t) ==
    /\ tasks[t].pc \in {"ctx_summary", "ctx_recent"}
    /\ faults < MaxFaults
    /\ faults' = faults + 1
    /\ tasks' = [tasks EXCEPT ![t] = Raised(@, "fail_" \o tasks[t].pc)]
    /\ UNCHANGED <<messages, msg_seq, summaries, sum_seq, now, sent, delivered, gw, pol, recent, last_write, histories, app_out>>

\* add_message of the assistant row raises inside the try of lines 236/286:
\* the except clause takes it: await msg.answer("LLM error: " + e)
AddAssistantFails(t) ==
    /\ tasks[t].pc = "add_assistant"
    /\ faults < MaxFaults
    /\ faults' = faults + 1
    /\ tasks' = [tasks EXCEPT ![t] =
          [@ EXCEPT !.pc = "notice", !.reply = StorageErrorText, !.ts = 0,
                    !.log = Append(@, "fail_add_assistant")]]
    /\ UNCHANGED <<messages, msg_seq, summaries, sum_seq, now, sent, delivered, gw, pol, recent, last_write, histories, app_out>>

\* count_messages or get_recent_text of maybe_summarize raises: lines 176 and
\* 178 are before the try of line 179, and the callers' call (248, 297) is
\* after their own try
SumReadFails(t) ==
    /\ tasks[t].pc \in {"sum_count", "sum_recent"}
    /\ faults < MaxFaults
    /\ faults' = faults + 1
    /\ tasks' = [tasks EXCEPT ![t] =
          Raised([@ EXCEPT !.checked = TRUE], "fail_" \o tasks[t].pc)]
    /\ UNCHANGED <<messages, msg_seq, summaries, sum_seq, now, sent, delivered, gw, pol, recent, last_write, histories, app_out>>

\* save_summary raises inside the try of line 179: except Exception: pass
SumSaveFails(t) ==
    /\ tasks[t].pc = "sum_save"
    /\ faults < MaxFaults
    /\ faults' = faults + 1
    /\ tasks' = [tasks EXCEPT ![t] = Returned(Logged(@, <<"fail_sum_save">>))]
    /\ UNCHANGED <<messages, msg_seq, summaries, sum_seq, now, sent, delivered, gw, pol, recent, last_write, histories, app_out>>

\* time.time() moves on
ClockTick ==
    /\ now < MaxTime
    /\ now' = now + 1
    /\ UNCHANGED <<messages, msg_seq, summaries, sum_seq, tasks, sent, delivered, gw, pol, recent, last_write, faults, histories, app_out>>

Init ==
    /\ messages = <<>>
    /\ msg_seq = 0
    /\ summaries = <<>>
    /\ sum_seq = 0
    /\ now = 0
    /\ tasks = [t \in Tasks |-> IdleTask]
    /\ sent = [c \in Chats |-> <<>>]
    /\ delivered = 0
    /\ last_write = [c \in Chats |-> "none"]
    /\ faults = 0
    /\ histories = <<>>
    /\ app_out = <<>>
    /\ gw = GwStart
    /\ pol = NoDecision
    /\ recent = NoQuery

\* one step of the handler running in task t
HandlerStep(t) ==
    \/ Deliver(t)
    \/ AddUser(t)
    \/ Greet(t)
    \/ Usage(t)
    \/ CtxSummary(t)
    \/ CtxRecent(t)
    \/ Preview(t)
    \/ Llm(t)
    \/ Answer(t)
    \/ AddAssistant(t)
    \/ Notice(t)
    \/ SumCount(t)
    \/ SumRecent(t)
    \/ SumLlm(t)
    \/ SumSave(t)
    \/ WipeMessages(t)
    \/ WipeSummaries(t)
    \/ WipeCommit(t)
    \/ WipeAnswer(t)
    \/ AddUserFails(t)
    \/ CtxReadFails(t)
    \/ AddAssistantFails(t)
    \/ SumReadFails(t)
    \/ SumSaveFails(t)

Next == ClockTick \/ \E t \in Tasks : HandlerStep(t)

Spec == Init /\ [][Next]_vars

\* The handlers when every update arrives and is handled within one second:
\* the clock does not move.  Its behaviours are behaviours of Spec.
NextSameSecond == \E t \in Tasks : HandlerStep(t)

SpecSameSecond == Init /\ [][NextSameSecond]_vars

-----------------------------------------------------------------------------
(* Claims about the handlers, checked under Spec and SpecSameSecond *)

\* the effects a handler has had
Effects(t) == {tasks[t].log[i] : i \in DOMAIN tasks[t].log}

\* the handler has returned and no exception left it
Completed(t) == tasks[t].pc = "done" /\ "raise" \notin Effects(t)

\* C1: after each append of a message, a summarization attempt is made if
\* and only if the count of the chat right after that append is positive and
\* divisible by N: a handler that has returned made as many attempts as it
\* made such appends.
C1_AttemptPerBoundary ==
    \A t \in Tasks : Completed(t) => tasks[t].attempts = tasks[t].owed

\* C2: every on_text handler runs the check of maybe_summarize, whatever its
\* reply branch was: an on_text handler that has returned has entered
\* maybe_summarize.
C2_CheckAlwaysRuns ==
    \A t \in Tasks :
        (Completed(t) /\ tasks[t].kind = "on_text") => tasks[t].checked

\* C9: after a wipe of a chat has committed and before any later append to
\* that chat (a message or a summary), the count of the chat is 0, its latest
\* summary is empty and the context built for it is empty.
C9_WipeComplete ==
    \A c \in Chats :
        last_write[c] = "wipe" =>
            /\ count_messages(messages, c) = 0
            /\ get_latest_summary(summaries, c) = ""
            /\ build_context(messages, summaries, c) = ""

\* the wipe of c1 has committed after messages and a summary of c1 were stored
C9_Witness ==
    /\ last_write["c1"] = "wipe"
    /\ \E t \in Tasks : tasks[t].pc = "wipe_answer" /\ tasks[t].msg.chat_id = "c1"
    /\ OfChat(messages, "c2") = <<>>
    /\ OfChat(summaries, "c2") = <<>>
    /\ msg_seq >= 2
    /\ sum_seq >= 1

\* C10: in every reachable state a chat with zero stored messages has no
\* summary row.
C10_NoSummaryWithoutMessages ==
    \A c \in Chats : count_messages(messages, c) = 0 => OfChat(summaries, c) = <<>>

\* C11: a wipe removes the message rows and the summary rows of its chat in
\* one step: whenever a step removes a row of a chat from either table, the
\* chat has no row left in either table after that step, so no read sees one
\* table emptied and the other not.
C11_WipeAtomic ==
    [][\A c \in Chats :
          (\/ Len(OfChat(messages', c)) < Len(OfChat(messages, c))
           \/ Len(OfChat(summaries', c)) < Len(OfChat(summaries, c)))
          => (OfChat(messages', c) = <<>> /\ OfChat(summaries', c) = <<>>)]_vars

\* both DELETEs of a wipe of c1 are executed and not committed, while c1 has
\* messages and a summary: reads still see all of them
C11_Witness ==
    \E t \in Tasks :
        /\ tasks[t].pc = "wipe_commit"
        /\ tasks[t].txn = {"messages", "summaries"}
        /\ OfChat(messages, tasks[t].msg.chat_id) # <<>>
        /\ OfChat(summaries, tasks[t].msg.chat_id) # <<>>

\* how many times the handler had the effect e
Count(t, e) == Cardinality({i \in DOMAIN tasks[t].log : tasks[t].log[i] = e})

\* C12: a turn whose llm_reply fails terminally (all 6 attempts fail) emits
\* exactly one error notice and appends no assistant message: while it runs
\* it has emitted at most one notice and stored no assistant row, and once it
\* is over it has emitted exactly one.
C12_FailedTurn ==
    \A t \in Tasks :
        "failed" \in Effects(t) =>
            /\ Count(t, "assistant") = 0
            /\ Count(t, "reply") = 0
            /\ Count(t, "notice") <= 1
            /\ tasks[t].pc \in {"sum_count", "sum_recent", "sum_llm", "sum_save", "done"}
                   => Count(t, "notice") = 1

\* a turn of chat c1 whose model call failed terminally is over: the notice
\* is the only text sent to the chat and the user row is the only row stored
C12_Witness ==
    \E t \in Tasks :
        /\ Completed(t)
        /\ "failed" \in Effects(t)
        /\ sent["c1"] = <<"LLM error: e2">>
        /\ Len(OfChat(messages, "c1")) = 1
        /\ messages[1].role = "user"

\* the failures of the operations of maybe_summarize
SummarizationFailures ==
    {"fail_sum_count", "fail_sum_recent", "fail_sum_llm", "fail_sum_save"}

\* C13: a failure of an operation of maybe_summarize (the count read, the
\* read of the long context, the model call, the save_summary write) stays
\* inside maybe_summarize: no exception leaves the handler and no error
\* notice follows it.
C13_SummarizationContained ==
    \A t \in Tasks :
        (Effects(t) \cap SummarizationFailures # {}) =>
            /\ "raise" \notin Effects(t)
            /\ \A i, j \in DOMAIN tasks[t].log :
                  (tasks[t].log[i] \in SummarizationFailures /\ i < j)
                      => tasks[t].log[j] # "notice"

\* C14: when a read of build_context fails in a turn (get_latest_summary or
\* get_recent_text), the turn goes on with the part that failed taken as
\* empty: the turn is not aborted and, once over, it has called the model.
C14_ContextReadTolerated ==
    \A t \in Tasks :
        (/\ tasks[t].kind \in {"on_text", "on_ai"}
         /\ Effects(t) \cap {"fail_ctx_summary", "fail_ctx_recent"} # {}
         /\ tasks[t].pc = "done")
        => ("raise" \notin Effects(t) /\ "gateway" \in Effects(t))

\* C15: when the write of the user message fails in on_text, the rest of the
\* turn still runs: the handler is not aborted and evaluates the reply
\* policy (and replies when it is true).
C15_UserWriteTolerated ==
    \A t \in Tasks :
        (/\ tasks[t].kind = "on_text"
         /\ "fail_add_user" \in Effects(t)
         /\ tasks[t].pc = "done")
        => ("raise" \notin Effects(t) /\ "policy" \in Effects(t))

\* C16: an error notice is emitted in a turn only when llm_reply failed
\* terminally; a turn that has emitted its reply emits no notice afterwards.
C16_NoticeOnlyOnGatewayFailure ==
    \A t \in Tasks :
        "notice" \in Effects(t) =>
            ("failed" \in Effects(t) /\ "reply" \notin Effects(t))

\* C17: every text handled by on_text is stored as exactly one user message
\* before the reply policy is evaluated, whatever the policy answers: a
\* handler past its first await has stored its user row first (or the write
\* raised and the handler ended there), and the step that stores it adds one
\* row, the stripped text with role user, to the chat.
C17_StoredBeforePolicy ==
    /\ [](\A t \in Tasks :
            (tasks[t].kind = "on_text" /\ tasks[t].pc # "add_user") =>
                \/ tasks[t].log = <<"fail_add_user", "raise">>
                \/ /\ Len(tasks[t].log) >= 2
                   /\ tasks[t].log[1] = "user"
                   /\ tasks[t].log[2] = "policy"
                   /\ Count(t, "user") = 1
                   /\ Count(t, "policy") = 1)
    /\ [][\A t \in Tasks :
            (/\ tasks[t].kind = "on_text"
             /\ tasks[t].pc = "add_user"
             /\ tasks'[t].pc # "add_user"
             /\ tasks'[t].log # <<"fail_add_user", "raise">>)
            => /\ count_messages(messages', tasks[t].msg.chat_id)
                    = count_messages(messages, tasks[t].msg.chat_id) + 1
               /\ Front(messages') = messages
               /\ Last(messages').role = "user"
               /\ Last(messages').chat_id = tasks[t].msg.chat_id
               /\ Last(messages').content = Strip(tasks[t].msg.text)]_vars

\* a group text that got no reply has been stored: the handler has returned
\* after the policy answered false and the chat holds its one row
C17_Witness ==
    \E t \in Tasks :
        /\ Completed(t)
        /\ tasks[t].kind = "on_text"
        /\ tasks[t].log = <<"user", "policy">>
        /\ count_messages(messages, "c2") = 1
        /\ sent["c2"] = <<>>

\* in the log of handler t, every effect b comes after an effect a
After(t, a, b) ==
    \A i \in DOMAIN tasks[t].log :
        tasks[t].log[i] = b => \E j \in 1..(i - 1) : tasks[t].log[j] = a

\* C18: in a turn that produces a reply the effects come in the order user
\* message appended, model called, assistant message appended, reply
\* emitted, summarization check: when the reply has been emitted the
\* assistant message is already stored.
C18_EffectOrder ==
    \A t \in Tasks :
        tasks[t].kind \in {"on_text", "on_ai"} =>
            /\ After(t, "user", "gateway")
            /\ After(t, "gateway", "assistant")
            /\ After(t, "assistant", "reply")
            /\ After(t, "reply", "check") \/ "reply" \notin Effects(t)

-----------------------------------------------------------------------------
(* Specification of the summaries table alone: save_summary and            *)
(* get_latest_summary called one after the other while the clock moves.    *)

MaxSaves == 3

SummaryTexts == {"notes", "newer notes"}

\* Memory.save_summary
StoreSave ==
    /\ sum_seq < MaxSaves
    /\ \E c \in Chats, content \in SummaryTexts :
          summaries' = InsertSummary(summaries, sum_seq + 1, c, content, now)
    /\ sum_seq' = sum_seq + 1
    /\ recent' = NoQuery
    /\ UNCHANGED <<messages, msg_seq, now, tasks, sent, delivered, gw, pol, last_write, faults, histories, app_out>>

\* Memory.get_latest_summary
StoreLatest ==
    /\ ~recent.called
    /\ \E c \in Chats :
          recent' = [called |-> TRUE, chat_id |-> c,
                     content |-> get_latest_summary(summaries, c)]
    /\ UNCHANGED <<messages, msg_seq, summaries, sum_seq, now, tasks, sent, delivered, gw, pol, last_write, faults, histories, app_out>>

InitSummaries ==
    /\ StoreEmpty
    /\ now = 0
    /\ NoTasks
    /\ gw = GwStart
    /\ pol = NoDecision
    /\ recent = NoQuery

NextSummaries == StoreSave \/ Tick \/ StoreLatest

SpecSummaries == InitSummaries /\ [][NextSummaries]_vars

\* C19: after any sequence of save_summary calls on a chat, several of them
\* in the same second included, get_latest_summary returns the content of
\* the row with the greatest (ts, id), which is the row saved last ("" when
\* the chat has none); every call adds one row and leaves the earlier rows
\* as they were.
C19_LatestIsLastSaved ==
    /\ [](recent.called =>
            LET rows == OfChat(summaries, recent.chat_id)
            IN  IF rows = <<>> THEN recent.content = ""
                ELSE /\ recent.content = Last(rows).content
                     /\ \A i \in 1..(Len(rows) - 1) : KeyBefore(rows[i], Last(rows)))
    /\ [][summaries' # summaries =>
            /\ Front(summaries') = summaries
            /\ Len(summaries') = Len(summaries) + 1]_vars

\* two summaries of one chat saved in the same second, with different
\* contents: the second one is returned
C19_Witness ==
    /\ recent.called
    /\ LET rows == OfChat(summaries, recent.chat_id)
       IN  /\ Len(rows) = 2
           /\ rows[1].ts = rows[2].ts
           /\ rows[1].content # rows[2].content
           /\ recent.content = rows[2].content

-----------------------------------------------------------------------------
(* Claims about the rows of different chats, checked under Spec *)

\* handler t, working for chat c, takes this step
StepOf(t, c) ==
    /\ tasks'[t] # tasks[t]
    /\ ~Free(t)
    /\ tasks[t].msg.chat_id = c

\* the rows of chat c in a table change from old to new by an append for c
\* or by a wipe of c, and in no other way
OwnChange(old, new, c) ==
    \E t \in Tasks :
        /\ StepOf(t, c)
        /\ \/ (new # <<>> /\ Front(new) = old)
           \/ (tasks[t].kind = "on_wipe" /\ new = <<>>)

\* C20: every operation done for a chat leaves the message rows and the
\* summary rows of every other chat unchanged, under any interleaving: the
\* rows of a chat change only in a step of a handler of that chat, and then
\* only by one row appended after the existing ones or by a wipe of that
\* chat removing them all.
C20_ChatIsolation ==
    [][\A c \in Chats :
          /\ OfChat(messages', c) # OfChat(messages, c)
                => OwnChange(OfChat(messages, c), OfChat(messages', c), c)
          /\ OfChat(summaries', c) # OfChat(summaries, c)
                => OwnChange(OfChat(summaries, c), OfChat(summaries', c), c)]_vars

\* a wipe of c1 has committed while c2 holds messages and a summary: they
\* are still there
C20_Witness ==
    /\ \E t \in Tasks : tasks[t].pc = "wipe_answer" /\ tasks[t].msg.chat_id = "c1"
    /\ Len(OfChat(messages, "c2")) = 2
    /\ Len(OfChat(summaries, "c2")) = 1
    /\ OfChat(messages, "c1") = <<>>

-----------------------------------------------------------------------------
(* src/app.py, the in-memory variant.  ask_llm calls the synchronous       *)
(* OpenAI client: from its read of the history to its two appends the      *)
(* coroutine never yields, so an event changes the histories in one step.  *)
(* A chat missing from the defaultdict reads as an empty history.          *)

\* configured through the environment (default 6); the model runs the
\* configuration MAX_TURNS=2
MAX_TURNS == 2

\* deque(maxlen=2 * MAX_TURNS)
HistoryMaxLen == 2 * MAX_TURNS

\* deque.append of a bounded deque: a full deque drops its oldest entry
DequeAppend(d, x) ==
    IF HistoryMaxLen = 0 THEN d
    ELSE IF Len(d) = HistoryMaxLen THEN Append(Tail(d), x)
    ELSE Append(d, x)

\* {"role": ..., "content": ...}
HistoryEntry(role, content) == [role |-> role, content |-> content]

\* the text returned by the except clause of ask_llm (a Greek text in the
\* source, "AI error: " followed by the exception)
AppErrorText(e) == "AI error: " \o e

ask_llm_PromptFirst(h, user_prompt, call) ==
    LET h1 == DequeAppend(h, HistoryEntry("user", user_prompt))
    IN  IF call.kind = "ok"
        THEN [history |-> DequeAppend(h1, HistoryEntry("assistant", Strip(call.text))),
              answer |-> Strip(call.text)]
        ELSE [history |-> h1, answer |-> AppErrorText(call.text)]

\* ask_llm(chat_id, user_prompt) on the history h of the chat, the call to
\* the model ending as call says: the history afterwards and the answer
ask_llm(h, user_prompt, call) ==
    IF call.kind = "ok"
    THEN LET answer == Strip(call.text)
             h1 == DequeAppend(h, HistoryEntry("user", user_prompt))
         IN  [history |-> DequeAppend(h1, HistoryEntry("assistant", answer)),
              answer |-> answer]
    ELSE [history |-> h, answer |-> AppErrorText(call.text)]

AppPrompts == {"p1", "p2"}

\* how client.responses.create can end: output_text, or an exception
AppCalls == {CallOk(" a1 "), CallOk("a2"), CallOther("timeout")}

AppUsageText == "Give a question after the command."

AppWelcomeText == "Welcome!"

\* what app_out records of an event
AppEvent(event, chat_id, prompt, call, answer, before_len) ==
    [event |-> event, chat_id |-> chat_id, prompt |-> prompt, call |-> call,
     answer |-> answer, before_len |-> before_len]

\* on_ai with command.args: answer = await ask_llm(chat_id, command.args)
AppAi ==
    \E c \in Chats, prompt \in AppPrompts, call \in AppCalls :
        LET r == ask_llm(histories[c], prompt, call)
        IN  /\ histories' = [histories EXCEPT ![c] = r.history]
            /\ app_out' = AppEvent("ai", c, prompt, call, r.answer, Len(histories[c]))
            /\ UNCHANGED <<messages, msg_seq, summaries, sum_seq, now, tasks, sent, delivered, gw, pol, recent, last_write, faults>>

\* on_ai without command.args: the usage text, ask_llm is not called
AppAiUsage ==
    \E c \in Chats :
        /\ app_out' = AppEvent("usage", c, None, CallOk(""), AppUsageText, Len(histories[c]))
        /\ UNCHANGED <<messages, msg_seq, summaries, sum_seq, now, tasks, sent, delivered, gw, pol, recent, last_write, faults, histories>>

\* on_start_cmd: histories.pop(message.chat.id, None)
AppStart ==
    \E c \in Chats :
        /\ histories' = [histories EXCEPT ![c] = <<>>]
        /\ app_out' = AppEvent("start", c, None, CallOk(""), AppWelcomeText, Len(histories[c]))
        /\ UNCHANGED <<messages, msg_seq, summaries, sum_seq, now, tasks, sent, delivered, gw, pol, recent, last_write, faults>>

InitApp ==
    /\ histories = [c \in Chats |-> <<>>]
    /\ app_out = AppEvent("none", None, None, CallOk(""), "", 0)
    /\ StoreEmpty
    /\ tasks = <<>>
    /\ sent = <<>>
    /\ delivered = 0
    /\ last_write = <<>>
    /\ faults = 0
    /\ gw = GwStart
    /\ pol = NoDecision
    /\ recent = NoQuery

NextApp == AppAi \/ AppAiUsage \/ AppStart

SpecApp == InitApp /\ [][NextApp]_vars

\* an even number of entries, at most 2 * MAX_TURNS, user and assistant in
\* turn, the first one of the user
HistoryShape(h) ==
    /\ Len(h) % 2 = 0
    /\ Len(h) <= 2 * MAX_TURNS
    /\ \A i \in DOMAIN h : h[i].role = (IF i % 2 = 1 THEN "user" ELSE "assistant")

\* the last n entries of s (all of s when it has fewer)
LastN(s, n) == SubSeq(s, Len(s) - Min(n, Len(s)) + 1, Len(s))

\* C21: in app.py, after any sequence of /ai and /start events the history
\* of each chat has an even number of entries, at most 2 * MAX_TURNS,
\* alternating user, assistant from a user entry; a successful model call
\* appends the pair (user prompt, assistant answer) and drops the oldest
\* entries beyond the bound; a failed call leaves the history as it was and
\* answers with the error text; /start empties the history of its chat; and
\* no event changes the history of another chat.
C21_RollingHistory ==
    /\ [](\A c \in Chats : HistoryShape(histories[c]))
    /\ [][LET e == app_out'
              old == histories[e.chat_id]
              new == histories'[e.chat_id]
          IN  /\ \A o \in Chats \ {e.chat_id} : histories'[o] = histories[o]
              /\ (e.event = "ai" /\ e.call.kind = "ok") =>
                    /\ e.answer = Strip(e.call.text)
                    /\ new = LastN(old \o <<HistoryEntry("user", e.prompt),
                                            HistoryEntry("assistant", e.answer)>>,
                                   2 * MAX_TURNS)
              /\ (e.event = "ai" /\ e.call.kind # "ok") =>
                    /\ e.answer = AppErrorText(e.call.text)
                    /\ new = old
              /\ e.event = "usage" => new = old
              /\ e.event = "start" => new = <<>>]_vars

\* a successful call on a full history of c1 has dropped the oldest pair and
\* appended the new one, the answer stripped, while c2 keeps its own pair
C21_Witness ==
    /\ app_out.event = "ai"
    /\ app_out.chat_id = "c1"
    /\ app_out.call = CallOk(" a1 ")
    /\ app_out.before_len = 2 * MAX_TURNS
    /\ Len(histories["c1"]) = 2 * MAX_TURNS
    /\ Last(histories["c1"]) = HistoryEntry("assistant", "a1")
    /\ histories["c1"][1].content # app_out.prompt
    /\ Len(histories["c2"]) = 2

=============================================================================
